---- MODULE Spec2Model ----
(***************************************************************************)
(* A model of the how-to-jwks service: the Redis-backed signing-key        *)
(* lifecycle (ensureActiveKey, rotateKeys, revokeKey, getJWKS) and the      *)
(* Postgres-backed session engine (createUserSession, refreshTokens,       *)
(* revokeSession, the auth middleware).  Every awaited store access is one *)
(* step of the calling process, so calls interleave between any two        *)
(* awaits.                                                                 *)
(***************************************************************************)
EXTENDS Integers, Sequences, FiniteSets, TLC

\* ------------------------------------------------------------------ bounds
MaxKids == 3            \* how many key pairs a behaviour may generate
JWKS_MAX_KEYS == 2      \* envs.app.JWKS_MAX_KEYS, the retention maximum M

MaxUuid == 2            \* how many UUID values the generators draw from
MaxSec == 3             \* the clock stops after this many seconds
RaceSec == 1            \* the seconds a race of refreshes lasts
AccessTtlSec == 1       \* envs.app.ACCESS_TOKEN_EXPIRY_MS, in seconds
MaxRotated == 2         \* keys generated while validation results are examined
MaxRows == 3            \* rows of the sessions table the status operations start from
RefreshTtlSec == 3      \* envs.app.REFRESH_TOKEN_EXPIRY_MS, in seconds

\* --------------------------------------------------------------- constants
MAX_CONCURRENT_SESSIONS == 5
MsPerSec == 1000        \* Date.now() counts milliseconds, a JWT NumericDate seconds
ACCESS_TOKEN_EXPIRY_MS == AccessTtlSec * MsPerSec
REFRESH_TOKEN_EXPIRY_MS == RefreshTtlSec * MsPerSec
ISSUER == "how-to-jwks"
Users == {"u1", "u2"}
LoginUsers == {"u1"}    \* the users who log in; the other only owns an earlier session
SProcs == {"s1", "s2"}
Client == "s1"  \* concurrent callers of the session functions
Kids == 1..MaxKids      \* kid values; their numeric order is the lexicographic one
NoKid == 0              \* redis.get(...) returning null
KProcs == {"k1", "k2"}  \* concurrent callers of the key functions

VARIABLES
  redis,     \* the key store: active pointer, pem/jwk blobs, recent zset, revoked set
  now,       \* Date.now(), in milliseconds
  kpc,       \* kpc[p]: where caller p of a key function stands
  kloc,      \* kloc[p]: the locals of caller p
  genLog,    \* history: the keys generated so far, oldest first: [kid, by]
  db,        \* the sessions table: db.rows (committed rows), db.tx (open transactions)
  spc,       \* spc[p]: where caller p of a session function stands
  sloc,      \* sloc[p]: the locals of caller p
  spent,     \* history: the refresh tokens a successful refreshTokens call consumed
  uuidPool,  \* the values the UUID generators may yield in this behaviour
  strictExp  \* whether the build's jose rejects the date string of createRefreshToken

kvars == <<redis, kpc, kloc, genLog>>
svars == <<db, spc, sloc, spent, uuidPool, strictExp>>
vars == <<redis, now, kpc, kloc, genLog, db, spc, sloc, spent, uuidPool, strictExp>>

\* ------------------------------------------------------- sequences helpers
Min(a, b) == IF a < b THEN a ELSE b

Reverse(s) == [i \in 1..Len(s) |-> s[Len(s) + 1 - i]]

SeqToSet(s) == {s[i] : i \in 1..Len(s)}

\* ------------------------------------------------------ Redis sorted set
\* A sorted set is a function member -> score.  Redis orders it by score and,
\* among equal scores, by member (lexicographically).
ZLess(z, a, b) == z[a] < z[b] \/ (z[a] = z[b] /\ a < b)

ZFirst(z) == CHOOSE a \in DOMAIN z : \A b \in DOMAIN z \ {a} : ZLess(z, a, b)

ZRemove(z, ms) == [m \in DOMAIN z \ ms |-> z[m]]

RECURSIVE ZAsc(_)
ZAsc(z) ==
  IF DOMAIN z = {} THEN <<>>
  ELSE LET a == ZFirst(z) IN <<a>> \o ZAsc(ZRemove(z, {a}))

ZAdd(z, score, m) == [x \in DOMAIN z \cup {m} |-> IF x = m THEN score ELSE z[x]]

ZCard(z) == Cardinality(DOMAIN z)

\* zrange / zrevrange with non-negative, inclusive, zero-based indices
ZRange(z, start, stop) == SubSeq(ZAsc(z), start + 1, Min(stop + 1, ZCard(z)))

\* the bug of reading the index oldest-first
ZRevRangeOldestFirst(z, start, stop) == ZRange(z, start, stop)

ZRevRange(z, start, stop) ==
  SubSeq(Reverse(ZAsc(z)), start + 1, Min(stop + 1, ZCard(z)))

EmptyZ == [m \in {} |-> 0]

\* ------------------------------------------------------------ key store
EmptyRedis ==
  [active |-> NoKid, pem |-> {}, jwk |-> {}, recent |-> EmptyZ, revoked |-> {}]

\* a retention that keeps one key more than configured
KeepOneMore == JWKS_MAX_KEYS + 1

\* a retention that keeps one key fewer than configured
KeepOneLess == JWKS_MAX_KEYS - 1

getKeepCount == JWKS_MAX_KEYS

IdleLoc ==
  [op |-> "none", kid |-> NoKid, empty |-> FALSE, total |-> 0,
   toRemove |-> <<>>, rest |-> <<>>, revoked |-> {}, keys |-> <<>>,
   hasPem |-> FALSE, hasJwk |-> FALSE]

\* Where a key-creating call goes once its trimming is over: rotateKeys
\* returns, ensureActiveKey goes on to load the key it returns.
AfterWrite(l) == IF l.op = "rotate" THEN "done" ELSE "e_loadpem"

\* a filter that lets revoked kids through
SkipNone(rest, revoked) == rest

\* getJWKS skips the kids of its revoked snapshot without touching the store.
RECURSIVE SkipRevoked(_, _)
SkipRevoked(rest, revoked) ==
  IF rest # <<>> /\ Head(rest) \in revoked
  THEN SkipRevoked(Tail(rest), revoked)
  ELSE rest

JNext(rest) == IF rest = <<>> THEN "done" ELSE "j_get"

\* One awaited Redis command of a key function: the store s, the caller's
\* locals l and position pc, and Date.now() = t.  Yields the three afterwards.
KStep(s, l, pc, t) ==
  CASE pc = "e_get" ->          \* let kid = await redis.get(ACTIVE_KID_KEY)
         [s |-> s,
          l |-> [l EXCEPT !.kid = s.active, !.empty = (s.active = NoKid)],
          pc |-> IF s.active = NoKid THEN "gen" ELSE "e_loadpem"]
    [] pc = "w_pem" ->          \* redis.set(KEY_PEM_PREFIX + kid, pem)
         [s |-> [s EXCEPT !.pem = @ \cup {l.kid}], l |-> l, pc |-> "w_jwk"]
    [] pc = "w_jwk" ->          \* redis.set(KEY_JWK_PREFIX + kid, jwk)
         [s |-> [s EXCEPT !.jwk = @ \cup {l.kid}], l |-> l, pc |-> "w_active"]
    [] pc = "w_active" ->       \* redis.set(ACTIVE_KID_KEY, kid)
         [s |-> [s EXCEPT !.active = l.kid], l |-> l, pc |-> "w_zadd"]
    [] pc = "w_zadd" ->         \* redis.zadd(RECENT_KEYS_ZSET, Date.now(), kid)
         [s |-> [s EXCEPT !.recent = ZAdd(@, t, l.kid)], l |-> l, pc |-> "w_zcard"]
    [] pc = "w_zcard" ->        \* total = redis.zcard(...); if (total > keep)
         [s |-> s,
          l |-> [l EXCEPT !.total = ZCard(s.recent)],
          pc |-> IF ZCard(s.recent) > getKeepCount THEN "w_zrange" ELSE AfterWrite(l)]
    [] pc = "w_zrange" ->       \* toRemove = redis.zrange(..., 0, total - keep - 1)
         LET rm == ZRange(s.recent, 0, l.total - getKeepCount - 1) IN
         [s |-> s,
          l |-> [l EXCEPT !.toRemove = rm, !.rest = rm],
          pc |-> IF rm = <<>> THEN "w_zrem" ELSE "w_delpem"]
    [] pc = "w_delpem" ->       \* redis.del(KEY_PEM_PREFIX + rk)
         [s |-> [s EXCEPT !.pem = @ \ {Head(l.rest)}], l |-> l, pc |-> "w_deljwk"]
    [] pc = "w_deljwk" ->       \* redis.del(KEY_JWK_PREFIX + rk); next rk
         [s |-> [s EXCEPT !.jwk = @ \ {Head(l.rest)}],
          l |-> [l EXCEPT !.rest = Tail(@)],
          pc |-> IF Tail(l.rest) = <<>> THEN "w_zrem" ELSE "w_delpem"]
    [] pc = "w_zrem" ->         \* redis.zrem(RECENT_KEYS_ZSET, ...toRemove)
         IF l.toRemove = <<>>
         THEN [s |-> s, l |-> l, pc |-> "failed"]   \* ZREM without a member is an error
         ELSE [s |-> [s EXCEPT !.recent = ZRemove(@, SeqToSet(l.toRemove))],
               l |-> l, pc |-> AfterWrite(l)]
    [] pc = "e_loadpem" ->      \* pem = redis.get(KEY_PEM_PREFIX + kid)
         [s |-> s, l |-> [l EXCEPT !.hasPem = (l.kid \in s.pem)], pc |-> "e_loadjwk"]
    [] pc = "e_loadjwk" ->      \* jwkStr = redis.get(KEY_JWK_PREFIX + kid); return
         [s |-> s, l |-> [l EXCEPT !.hasJwk = (l.kid \in s.jwk)], pc |-> "done"]
    [] pc = "r_sadd" ->         \* redis.sadd(REVOKED_KEYS_SET, kid)
         [s |-> [s EXCEPT !.revoked = @ \cup {l.kid}], l |-> l, pc |-> "r_del"]
    [] pc = "r_del" ->          \* redis.del(KEY_PEM_PREFIX + kid)
         [s |-> [s EXCEPT !.pem = @ \ {l.kid}], l |-> l, pc |-> "done"]
    [] pc = "j_zrev" ->         \* kids = redis.zrevrange(..., 0, keep - 1)
         [s |-> s,
          l |-> [l EXCEPT !.rest = ZRevRange(s.recent, 0, getKeepCount - 1)],
          pc |-> "j_smembers"]
    [] pc = "j_smembers" ->     \* revoked = new Set(redis.smembers(...))
         LET r == SkipRevoked(l.rest, s.revoked) IN
         [s |-> s, l |-> [l EXCEPT !.revoked = s.revoked, !.rest = r], pc |-> JNext(r)]
    [] pc = "j_get" ->          \* jwkStr = redis.get(KEY_JWK_PREFIX + kid)
         LET k == Head(l.rest)
             r == SkipRevoked(Tail(l.rest), l.revoked) IN
         [s |-> s,
          l |-> [l EXCEPT !.keys = IF k \in s.jwk THEN Append(@, k) ELSE @,
                          !.rest = r],
          pc |-> JNext(r)]
    [] OTHER -> [s |-> s, l |-> l, pc |-> pc]

EnsurePcs == {"e_get", "e_loadpem", "e_loadjwk"}
WritePcs == {"w_pem", "w_jwk", "w_active", "w_zadd", "w_zcard", "w_zrange",
             "w_delpem", "w_deljwk", "w_zrem"}
RevokePcs == {"r_sadd", "r_del"}
JwksPcs == {"j_zrev", "j_smembers", "j_get"}
RestPcs == {"idle", "done", "failed"}

\* A call run from position pc to its end with no other call interleaved.
RECURSIVE RunKey(_, _, _, _)
RunKey(s, l, pc, t) ==
  IF pc \in RestPcs \cup {"gen"}
  THEN [s |-> s, l |-> l, pc |-> pc]
  ELSE LET r == KStep(s, l, pc, t) IN RunKey(r.s, r.l, r.pc, t)

\* getJWKS run alone on the store s: the kids of the keys it returns, in order.
getJWKS(s) == RunKey(s, [IdleLoc EXCEPT !.op = "jwks"], "j_zrev", 0).l.keys

GeneratedKids == {genLog[i].kid : i \in 1..Len(genLog)}

\* ------------------------------------------------- key-function callers
KInit ==
  /\ redis = EmptyRedis
  /\ now = 0
  /\ kpc = [p \in KProcs |-> "idle"]
  /\ kloc = [p \in KProcs |-> IdleLoc]
  /\ genLog = <<>>
  /\ db = [rows |-> <<>>, tx |-> <<>>]
  /\ spc = <<>>
  /\ sloc = <<>>
  /\ spent = {}
  /\ uuidPool = {}
  /\ strictExp = FALSE

KCall(p, op, pc, kid) ==
  /\ kpc[p] = "idle"
  /\ kpc' = [kpc EXCEPT ![p] = pc]
  /\ kloc' = [kloc EXCEPT ![p] = [IdleLoc EXCEPT !.op = op, !.kid = kid]]
  /\ UNCHANGED <<redis, now, genLog, svars>>

CallEnsureActiveKey(p) ==
  /\ kpc[p] = "idle"
  /\ KCall(p, "ensure", "e_get", NoKid)

CallRotateKeys(p) ==
  /\ kpc[p] = "idle"
  /\ KCall(p, "rotate", "gen", NoKid)

\* revokeKey(kid) of a kid that exists: a kid is a random UUID, which nobody
\* names before its key pair is generated
CallRevokeKey(p) ==
  /\ kpc[p] = "idle"
  /\ \E kid \in GeneratedKids : KCall(p, "revoke", "r_sadd", kid)

CallGetJWKS(p) ==
  /\ kpc[p] = "idle"
  /\ KCall(p, "jwks", "j_zrev", NoKid)

\* jose.generateKeyPair and crypto.randomUUID(): a key pair under a kid no
\* earlier key carries.  Generating an RSA key pair takes more than a
\* millisecond, so the clock moves on.
GenerateKeyPair(p) ==
  /\ kpc[p] = "gen"
  /\ \E kid \in Kids \ GeneratedKids :
       /\ kloc' = [kloc EXCEPT ![p].kid = kid]
       /\ genLog' = Append(genLog, [kid |-> kid, by |-> kloc[p].op])
  /\ now' = now + 1
  /\ kpc' = [kpc EXCEPT ![p] = "w_pem"]
  /\ UNCHANGED <<redis, svars>>

\* What a finished call hands back: the locals that make up its return value.
Returned(l) ==
  [IdleLoc EXCEPT !.op = l.op, !.kid = l.kid, !.empty = l.empty, !.keys = l.keys,
                  !.hasPem = l.hasPem, !.hasJwk = l.hasJwk]

KAdvance(p) ==
  LET r == KStep(redis, kloc[p], kpc[p], now) IN
  /\ redis' = r.s
  /\ kloc' = [kloc EXCEPT ![p] = IF r.pc \in RestPcs THEN Returned(r.l) ELSE r.l]
  /\ kpc' = [kpc EXCEPT ![p] = r.pc]
  /\ UNCHANGED <<now, genLog, svars>>

EnsureActiveKeyStep(p) ==
  /\ kloc[p].op = "ensure"
  /\ kpc[p] \in EnsurePcs \cup WritePcs
  /\ KAdvance(p)

RotateKeysStep(p) ==
  /\ kloc[p].op = "rotate"
  /\ kpc[p] \in WritePcs
  /\ KAdvance(p)

RevokeKeyStep(p) ==
  /\ kpc[p] \in RevokePcs
  /\ KAdvance(p)

GetJWKSStep(p) ==
  /\ kpc[p] \in JwksPcs
  /\ KAdvance(p)

KReturn(p) ==
  /\ kpc[p] \in {"done", "failed"}
  /\ kpc' = [kpc EXCEPT ![p] = "idle"]
  /\ kloc' = [kloc EXCEPT ![p] = IdleLoc]
  /\ UNCHANGED <<redis, now, genLog, svars>>

KNext ==
  \E p \in KProcs :
    \/ CallEnsureActiveKey(p)
    \/ CallRotateKeys(p)
    \/ GenerateKeyPair(p)
    \/ EnsureActiveKeyStep(p)
    \/ RotateKeysStep(p)
    \/ KReturn(p)

KeySpec == KInit /\ [][KNext]_vars

\* ------------------------------------------- key functions, one at a time
\* The same functions called one after the other by a single caller: each
\* action is a whole call, run to its return.  The caller's locals keep what
\* the last call returned.
Caller == "k1"

SeqFinish(r) ==
  /\ redis' = r.s
  /\ kloc' = [kloc EXCEPT ![Caller] = Returned(r.l)]
  /\ UNCHANGED <<kpc, svars>>

SeqGenerate(op) ==
  \E kid \in Kids \ GeneratedKids :
    /\ genLog' = Append(genLog, [kid |-> kid, by |-> op])
    /\ now' = now + 1
    /\ SeqFinish(RunKey(redis,
                        [IdleLoc EXCEPT !.op = op, !.kid = kid,
                                        !.empty = (op = "ensure")],
                        "w_pem", now + 1))

\* an ensureActiveKey that generates a key whether or not a pointer exists
SeqEnsureAlwaysGenerates == SeqGenerate("ensure")

SeqEnsureActiveKey ==
  IF redis.active = NoKid
  THEN SeqGenerate("ensure")
  ELSE /\ SeqFinish(RunKey(redis, [IdleLoc EXCEPT !.op = "ensure"], "e_get", now))
       /\ UNCHANGED <<now, genLog>>

SeqRotateKeys ==
  /\ kpc[Caller] = "idle"
  /\ SeqGenerate("rotate")

\* a revocation that flags the kid and leaves its private key stored
SeqRevokeFlagOnly ==
  \E kid \in GeneratedKids :
    /\ SeqFinish(KStep(redis, [IdleLoc EXCEPT !.op = "revoke", !.kid = kid],
                       "r_sadd", now))
    /\ UNCHANGED <<now, genLog>>

SeqRevokeKey ==
  \E kid \in GeneratedKids :
    /\ SeqFinish(RunKey(redis, [IdleLoc EXCEPT !.op = "revoke", !.kid = kid],
                        "r_sadd", now))
    /\ UNCHANGED <<now, genLog>>

SeqGetJWKS ==
  /\ SeqFinish(RunKey(redis, [IdleLoc EXCEPT !.op = "jwks"], "j_zrev", now))
  /\ UNCHANGED <<now, genLog>>

KSeqNext ==
  \/ SeqEnsureActiveKey
  \/ SeqRotateKeys
  \/ SeqRevokeKey
  \/ SeqGetJWKS

KeySeqSpec == KInit /\ [][KSeqNext]_vars

\* ------------------------------------------------ a key creation cut short
\* One caller runs ensureActiveKey and rotateKeys command by command; the call
\* may be cancelled (the request is aborted, the process stops) once it has
\* written to the store.  What it wrote so far stays.
CancelPcs == WritePcs \ {"w_pem"}

Cancel(p) ==
  /\ kpc[p] \in CancelPcs
  /\ kpc' = [kpc EXCEPT ![p] = "idle"]
  /\ kloc' = [kloc EXCEPT ![p] = [IdleLoc EXCEPT !.op = "cancelled"]]
  /\ UNCHANGED <<redis, now, genLog, svars>>

CancelNext ==
  \E p \in {Caller} :
    \/ CallEnsureActiveKey(p)
    \/ CallRotateKeys(p)
    \/ GenerateKeyPair(p)
    \/ EnsureActiveKeyStep(p)
    \/ RotateKeysStep(p)
    \/ KReturn(p)
    \/ Cancel(p)

CancelSpec == KInit /\ [][CancelNext]_vars

\* =============================================================== tokens
\* A signed JWT is its header kid and its claims.  Two tokens with the same
\* header and claims are the same string: RS256 signatures are deterministic.
NoTok == [sub |-> "", jti |-> 0, iat |-> 0, exp |-> 0, kid |-> NoKid, iss |-> ""]

\* a string that is no JWT of this deployment
BadToken == [sub |-> "", jti |-> 0, iat |-> 0, exp |-> 0, kid |-> NoKid, iss |-> "junk"]

NowSec(t) == t \div MsPerSec

\* getActivePrivateKeyAndKid: the active kid and whether importPKCS8 gets its
\* pem.  (The branch for a missing pointer calls ensureActiveKey; the session
\* specifications start with a pointer and nothing ever clears it.)
\* a key lookup that hands back whatever it read, material or not
KeyOrNothing(s) == [kid |-> s.active, ok |-> TRUE]

getActivePrivateKeyAndKid(s) ==
  [kid |-> s.active, ok |-> (s.active # NoKid /\ s.active \in s.pem)]

\* a signer that leaves the issuer claim out
SignJWTNoIssuer(sub, jti, t, exp, kid) ==
  [sub |-> sub, jti |-> jti, iat |-> NowSec(t), exp |-> exp, kid |-> kid, iss |-> ""]

\* new jose.SignJWT({sub, jti}).setIssuedAt().setIssuer(ISSUER)
\*   .setExpirationTime(exp).setProtectedHeader({alg, typ, kid}).sign(key)
SignJWT(sub, jti, t, exp, kid) ==
  [sub |-> sub, jti |-> jti, iat |-> NowSec(t), exp |-> exp, kid |-> kid, iss |-> ISSUER]

\* createAccessToken: setExpirationTime gets the number
\* Date.now() + ACCESS_TOKEN_EXPIRY_MS, which jose stores as the exp claim as is.
createAccessToken(s, t, userId, sessionId) ==
  LET k == getActivePrivateKeyAndKid(s) IN
  IF k.ok
  THEN [ok |-> TRUE,
        token |-> SignJWT(userId, sessionId, t, t + ACCESS_TOKEN_EXPIRY_MS, k.kid)]
  ELSE [ok |-> FALSE, token |-> NoTok]

\* createRefreshToken: setExpirationTime gets the string
\* new Date(Date.now() + REFRESH_TOKEN_EXPIRY_MS).toString().  jose reads a
\* string as a time span ("2h"); a build whose jose rejects the date string
\* throws here (strict), otherwise the expiry is that date, in seconds.
createRefreshToken(s, t, strict, userId, sessionId) ==
  LET k == getActivePrivateKeyAndKid(s) IN
  IF k.ok /\ ~strict
  THEN [ok |-> TRUE,
        token |-> SignJWT(userId, sessionId, t,
                          NowSec(t + REFRESH_TOKEN_EXPIRY_MS), k.kid)]
  ELSE [ok |-> FALSE, token |-> NoTok]

\* a verification that never looks at the issuer
jwtVerifyAnyIssuer(tok, s, t) ==
  /\ tok.kid \in SeqToSet(getJWKS(s))
  /\ tok.exp > NowSec(t)

\* jose.jwtVerify(token, jwkSet, {issuer}): the header kid names a published
\* key, the issuer matches and the exp claim, in seconds, is still ahead.
jwtVerify(tok, s, t) ==
  /\ tok.kid \in SeqToSet(getJWKS(s))
  /\ tok.iss = ISSUER
  /\ tok.exp > NowSec(t)

Invalid == [userId |-> "", sessionId |-> 0, isValid |-> FALSE]

\* a validation that hands back the claims it read even when it rejects
PartialTrust(tok, s, t) ==
  [userId |-> tok.sub, sessionId |-> tok.jti,
   isValid |-> jwtVerify(tok, s, t) /\ tok.sub # "" /\ tok.jti # 0]

\* a validation that accepts no token
RejectAll(tok, s, t) == Invalid

validateAccessToken(tok, s, t) ==
  IF jwtVerify(tok, s, t) /\ tok.sub # "" /\ tok.jti # 0
  THEN [userId |-> tok.sub, sessionId |-> tok.jti, isValid |-> TRUE]
  ELSE Invalid

\* validate-refresh-token.ts is not among the sources: verification of the
\* refresh token by the same codec.
validateRefreshToken(tok, s, t) ==
  IF jwtVerify(tok, s, t) /\ tok.sub # "" /\ tok.jti # 0
  THEN [userId |-> tok.sub, sessionId |-> tok.jti, isValid |-> TRUE]
  ELSE Invalid

\* ============================================================= sessions
NoRow ==
  [id |-> 0, userId |-> "", token |-> NoTok, refreshToken |-> NoTok, status |-> "none",
   expiresAt |-> 0, createdAt |-> 0, refreshedAt |-> 0]

NoTx == [sid |-> 0, row |-> NoRow]

\* a row of auth_keys: the columns the repository updates
NoKey == [active |-> FALSE, deactivated |-> FALSE, revoked |-> FALSE]

EmptyDb ==
  [rows |-> [i \in {} |-> NoRow], tx |-> [p \in SProcs |-> NoTx],
   keys |-> [k \in {} |-> NoKey]]

\* another caller's open transaction holds the row's lock
Locked(d, sid, p) == \E q \in SProcs \ {p} : d.tx[q].sid = sid

ActiveOf(rows, u) ==
  {i \in DOMAIN rows : rows[i].userId = u /\ rows[i].status = "active"}

countActiveSessions(rows, u) == Cardinality(ActiveOf(rows, u))

\* the rows ORDER BY createdAt LIMIT 1 may yield
\* a selection that takes any active session of the user
AnyActive(rows, u) == ActiveOf(rows, u)

OldestActive(rows, u) ==
  {i \in ActiveOf(rows, u) :
     \A j \in ActiveOf(rows, u) : rows[i].createdAt <= rows[j].createdAt}

\* a revocation that also blanks the stored tokens
revokeAndClear(rows, sid, t) ==
  IF sid \in DOMAIN rows
  THEN [rows EXCEPT ![sid].status = "revoked", ![sid].refreshedAt = t,
                    ![sid].token = NoTok, ![sid].refreshToken = NoTok]
  ELSE rows

\* every drizzle update also sets refreshedAt ($onUpdateFn)
revokeSession(rows, sid, t) ==
  IF sid \in DOMAIN rows
  THEN [rows EXCEPT ![sid].status = "revoked", ![sid].refreshedAt = t]
  ELSE rows

findByToken(rows, tok) == {i \in DOMAIN rows : rows[i].token = tok}

findByRefreshToken(rows, tok) == {i \in DOMAIN rows : rows[i].refreshToken = tok}

\* a status test that lets every row through
AnyStatus(row) == TRUE

IsActive(row) == row.status = "active"

\* a ceiling test that evicts one session too late
AboveCeiling(cnt) == cnt > MAX_CONCURRENT_SESSIONS

\* the ceiling test of createUserSession
AtCeiling(cnt) == cnt >= MAX_CONCURRENT_SESSIONS

\* isAfter(new Date(), new Date(session.expiresAt))
SessionExpired(row, t) == t > row.expiresAt

SIdle ==
  [op |-> "none", user |-> "", access |-> NoTok, refresh |-> NoTok,
   uid |-> "", sid |-> 0, snap |-> NoRow, newAccess |-> NoTok, newRefresh |-> NoTok,
   via |-> "direct", cnt |-> 0, outcome |-> "none", msg |-> "", refreshed |-> FALSE,
   at |-> 0, newId |-> 0, pre |-> {}, alone |-> FALSE, raced |-> {},
   wasSpent |-> FALSE, revA |-> FALSE, revR |-> FALSE, elapsed |-> FALSE,
   paired |-> FALSE, store |-> EmptyRedis,
   email |-> "", code |-> "", otpId |-> 0]

\* a failure that surfaces as an internal error
Uncaught(l, msg) == [l EXCEPT !.outcome = "error", !.msg = "Internal Server Error"]

\* throw new UnauthorizedError(msg); inside the middleware's try block every
\* throw becomes UnauthorizedError('Failed to refresh tokens')
Unauthorized(l, msg) ==
  [l EXCEPT !.outcome = "unauthorized",
            !.msg = IF l.via = "auth" THEN "Failed to refresh tokens" ELSE msg]

\* any other exception (a TypeError of jose, a database error)
Threw(l) ==
  IF l.via = "auth"
  THEN [l EXCEPT !.outcome = "unauthorized", !.msg = "Failed to refresh tokens"]
  ELSE [l EXCEPT !.outcome = "error", !.msg = "Internal Server Error"]

Res(d, l, pc) == [d |-> d, l |-> l, pc |-> pc, ok |-> TRUE]

Blocked(d, l, pc) == [d |-> d, l |-> l, pc |-> pc, ok |-> FALSE]

\* One awaited step of createUserSession by caller p: the database d, the
\* locals l, the key store s, Date.now() = t, and the values ch that the
\* step draws (UUIDs, the row a LIMIT 1 picks among equals).
CreateStep(d, l, pc, p, s, t, strict, ch) ==
  CASE pc = "c_count" ->      \* countActiveSessions(userId)
         LET n == countActiveSessions(d.rows, l.user) IN
         Res(d, [l EXCEPT !.cnt = n], IF AtCeiling(n) THEN "c_oldest" ELSE "c_access")
    [] pc = "c_oldest" ->     \* revokeOldestSession: the select
         LET c == OldestActive(d.rows, l.user) IN
         IF c = {} THEN Res(d, l, "c_access")
         ELSE IF ch.pick \in c THEN Res(d, [l EXCEPT !.sid = ch.pick], "c_revoke")
         ELSE Blocked(d, l, pc)
    [] pc = "c_revoke" ->     \* revokeOldestSession: this.revokeSession(oldest.id)
         IF Locked(d, l.sid, p) THEN Blocked(d, l, pc)
         ELSE Res([d EXCEPT !.rows = revokeSession(@, l.sid, t)], l, "c_access")
    [] pc = "c_access" ->     \* createAccessToken({userId, sessionId: randomUUID()})
         LET r == createAccessToken(s, t, l.user, ch.jti) IN
         IF r.ok THEN Res(d, [l EXCEPT !.newAccess = r.token], "c_refresh")
         ELSE Res(d, Threw(l), "failed")
    [] pc = "c_refresh" ->    \* createRefreshToken({userId, sessionId: randomUUID()})
         LET r == createRefreshToken(s, t, strict, l.user, ch.jti) IN
         IF r.ok THEN Res(d, [l EXCEPT !.newRefresh = r.token], "c_insert")
         ELSE Res(d, Threw(l), "failed")
    [] pc = "c_insert" ->     \* sessionsRepository.create({...}): id defaults to
                              \* gen_random_uuid(), which no row carries yet
         IF \/ ch.id \in DOMAIN d.rows
            \/ findByToken(d.rows, l.newAccess) # {}
            \/ findByRefreshToken(d.rows, l.newRefresh) # {}
         THEN Res(d, Threw(l), "failed")      \* a unique constraint rejects the row
         ELSE LET row == [id |-> ch.id, userId |-> l.user, token |-> l.newAccess,
                          refreshToken |-> l.newRefresh, status |-> "active",
                          expiresAt |-> t + ACCESS_TOKEN_EXPIRY_MS,
                          createdAt |-> t, refreshedAt |-> t] IN
              Res([d EXCEPT !.rows = [i \in DOMAIN @ \cup {ch.id} |->
                                        IF i = ch.id THEN row ELSE @[i]]],
                  [l EXCEPT !.outcome = "ok", !.newId = ch.id, !.at = t],
                  "done")
    [] OTHER -> Blocked(d, l, pc)

\* a commit that persists the access token of the transaction and drops the
\* rest of its writes
CommitTokenOnly(d, p, sid) ==
  [d EXCEPT !.rows[sid].token = d.tx[p].row.token, !.tx[p] = NoTx]

\* db.transaction commits when the callback returns: every write of the
\* transaction reaches the committed row at once
Commit(d, p, sid) == [d EXCEPT !.rows[sid] = d.tx[p].row, !.tx[p] = NoTx]

\* executeTransaction rolls the caller's writes back when the callback throws
Rollback(d, p) == [d EXCEPT !.tx[p] = NoTx]

\* the stored value of column col that another row already carries
Taken(d, p, sid, col, tok) ==
  \/ \E i \in DOMAIN d.rows \ {sid} : d.rows[i][col] = tok
  \/ \E q \in SProcs \ {p} : d.tx[q].sid \notin {0, sid} /\ d.tx[q].row[col] = tok

\* One awaited step of refreshTokens by caller p.  The reads go to the
\* committed rows (db), the three updates to the caller's transaction (tx).
RefreshStep(d, l, pc, p, s, t, strict) ==
  CASE pc = "r_validate" ->   \* validateRefreshToken(refreshToken)
         LET v == validateRefreshToken(l.refresh, s, t) IN
         IF ~v.isValid THEN Res(d, Unauthorized(l, "Invalid refresh token"), "failed")
         ELSE Res(d, [l EXCEPT !.uid = v.userId, !.sid = v.sessionId], "r_find")
    [] pc = "r_find" ->       \* sessionsRepository.findByRefreshToken(refreshToken)
         LET c == findByRefreshToken(d.rows, l.refresh) IN
         IF c = {} THEN Res(d, Unauthorized(l, "Session not found"), "failed")
         ELSE LET row == d.rows[CHOOSE i \in c : TRUE] IN
              IF row.userId # l.uid \/ row.id # l.sid
              THEN Res(d, Unauthorized(l, "Session mismatch"), "failed")
              ELSE IF ~IsActive(row)
              THEN Res(d, Unauthorized(l, "Session is not active"), "failed")
              ELSE Res(d, [l EXCEPT !.snap = row], "r_access")
    [] pc = "r_access" ->     \* createAccessToken({userId, sessionId: session.id})
         LET r == createAccessToken(s, t, l.uid, l.snap.id) IN
         IF r.ok THEN Res(d, [l EXCEPT !.newAccess = r.token], "r_refresh")
         ELSE Res(d, Threw(l), "failed")
    [] pc = "r_refresh" ->    \* createRefreshToken({userId, sessionId: session.id})
         LET r == createRefreshToken(s, t, strict, l.uid, l.snap.id) IN
         IF r.ok THEN Res(d, [l EXCEPT !.newRefresh = r.token], "r_update")
         ELSE Res(d, Threw(l), "failed")
    [] pc = "r_update" ->     \* sessionsRepository.update(session.id, {expiresAt, refreshedAt}, tx)
         IF Locked(d, l.snap.id, p) THEN Blocked(d, l, pc)
         ELSE Res([d EXCEPT !.tx[p] =
                     [sid |-> l.snap.id,
                      row |-> [d.rows[l.snap.id] EXCEPT
                                 !.expiresAt = t + ACCESS_TOKEN_EXPIRY_MS,
                                 !.refreshedAt = t]]],
                  l, "r_token")
    [] pc = "r_token" ->      \* sessionsRepository.updateToken(session.id, newAccessToken, tx)
         IF Taken(d, p, l.snap.id, "token", l.newAccess)
         THEN Res(Rollback(d, p), Threw(l), "failed")
         ELSE Res([d EXCEPT !.tx[p].row.token = l.newAccess, !.tx[p].row.refreshedAt = t],
                  l, "r_rtoken")
    [] pc = "r_rtoken" ->     \* sessionsRepository.updateRefreshToken(session.id, newRefreshToken, tx)
         IF Taken(d, p, l.snap.id, "refreshToken", l.newRefresh)
         THEN Res(Rollback(d, p), Threw(l), "failed")
         ELSE Res([d EXCEPT !.tx[p].row.refreshToken = l.newRefresh,
                            !.tx[p].row.refreshedAt = t],
                  l, "r_commit")
    [] pc = "r_commit" ->     \* the transaction commits; return {accessToken, refreshToken, session}
         Res(Commit(d, p, l.snap.id),
             [l EXCEPT !.outcome = "ok", !.refreshed = (l.via = "auth"), !.at = t],
             "done")
    [] OTHER -> Blocked(d, l, pc)

\* One awaited step of the auth middleware.  usersRepository.findById finds the
\* user: no operation removes a user.
AuthStep(d, l, pc, s, t) ==
  CASE pc = "a_validate" ->   \* validateAccessToken(accessToken)
         LET v == validateAccessToken(l.access, s, t) IN
         IF v.isValid
         THEN Res(d, [l EXCEPT !.uid = v.userId, !.sid = v.sessionId], "a_find")
         ELSE IF l.refresh = NoTok
         THEN Res(d, Unauthorized(l, "Access token expired and no refresh token provided"),
                  "failed")
         ELSE Res(d, [l EXCEPT !.via = "auth"], "a_rvalidate")
    [] pc = "a_find" ->       \* sessionsRepository.findByToken(accessToken)
         LET c == findByToken(d.rows, l.access)
             m == [l EXCEPT !.at = t] IN
         IF c = {} THEN Res(d, Unauthorized(m, "Session not found"), "failed")
         ELSE LET row == d.rows[CHOOSE i \in c : TRUE] IN
              IF row.userId # l.uid \/ row.id # l.sid
              THEN Res(d, Unauthorized(m, "Session mismatch"), "failed")
              ELSE IF ~IsActive(row)
              THEN Res(d, Unauthorized(m, "Session is not active"), "failed")
              ELSE IF SessionExpired(row, t)
              THEN Res(d, Unauthorized(m, "Session has expired"), "failed")
              ELSE Res(d, [m EXCEPT !.snap = row, !.outcome = "ok", !.refreshed = FALSE],
                       "done")
    [] pc = "a_rvalidate" ->  \* validateRefreshToken(refreshTokenHeader), inside try
         LET v == validateRefreshToken(l.refresh, s, t) IN
         IF ~v.isValid THEN Res(d, Unauthorized(l, "Invalid refresh token"), "failed")
         ELSE Res(d, [l EXCEPT !.uid = v.userId], "r_validate")
    [] OTHER -> Blocked(d, l, pc)

CreatePcs == {"c_count", "c_oldest", "c_revoke", "c_access", "c_refresh", "c_insert"}
RefreshPcs ==
  {"r_validate", "r_find", "r_access", "r_refresh", "r_update", "r_token", "r_rtoken",
   "r_commit"}
AuthPcs == {"a_validate", "a_find", "a_rvalidate"}
SRestPcs == {"idle", "done", "failed"}

\* what the step at pc draws: a UUID for a jti, a UUID for a row id, or the
\* row a LIMIT 1 yields
Choices(pc) ==
  [jti : IF pc \in {"c_access", "c_refresh"} THEN uuidPool ELSE {0},
   id : IF pc = "c_insert" THEN uuidPool \ DOMAIN db.rows ELSE {0},
   pick : IF pc = "c_oldest" THEN DOMAIN db.rows \cup {0} ELSE {0}]

\* ---------------------------------------------------- session callers
\* the callers whose refreshTokens call with the same token is under way
Racers(p, l) ==
  {q \in SProcs \ {p} :
     /\ l.op = "refresh" /\ sloc[q].op = "refresh"
     /\ spc[q] \in RefreshPcs /\ sloc[q].refresh = l.refresh}

\* A request arrives at caller p.  What the call's record keeps besides the
\* handler's locals is what the request met: whether any other call was under
\* way (alone) and which calls it overlaps with the same token (raced).
SCall(p, pc, l) ==
  /\ spc[p] = "idle"
  /\ spc' = [spc EXCEPT ![p] = pc]
  /\ sloc' = [q \in SProcs |->
               IF q = p
               THEN [l EXCEPT !.alone = \A r \in SProcs \ {p} : spc[r] \in SRestPcs,
                              !.raced = Racers(p, l)]
               ELSE [sloc[q] EXCEPT !.alone = FALSE,
                                    !.raced = IF q \in Racers(p, l) THEN @ \cup {p} ELSE @]]
  /\ UNCHANGED <<db, spent, uuidPool, strictExp, now, kvars>>

\* A behaviour stores at most as many new sessions as the pool has values.
CallCreateUserSession(p) ==
  \E u \in LoginUsers :
    /\ spc[p] = "idle"
    /\ uuidPool \ DOMAIN db.rows # {}
    /\ SCall(p, "c_count",
             [SIdle EXCEPT !.op = "create", !.user = u, !.pre = ActiveOf(db.rows, u)])

SFinish(p, r) ==
  /\ r.ok
  /\ db' = r.d
  /\ sloc' = [sloc EXCEPT ![p] = r.l]
  /\ spc' = [spc EXCEPT ![p] = r.pc]
  /\ UNCHANGED <<uuidPool, strictExp, now, kvars>>

CreateUserSessionStep(p) ==
  /\ spc[p] \in CreatePcs
  /\ \E ch \in Choices(spc[p]) :
       SFinish(p, CreateStep(db, sloc[p], spc[p], p, redis, now, strictExp, ch))
  /\ UNCHANGED spent

SReturn(p) ==
  /\ spc[p] \in {"done", "failed"}
  /\ spc' = [spc EXCEPT ![p] = "idle"]
  /\ sloc' = [q \in SProcs |->
               IF q = p THEN SIdle ELSE [sloc[q] EXCEPT !.raced = @ \ {p}]]
  /\ UNCHANGED <<db, spent, uuidPool, strictExp, now, kvars>>

\* ------------------------------------------------------------ requests
\* What clients present: the tokens the rows store, the refresh token that the
\* latest successful refresh consumed (spent), a string that is no token, and
\* no header at all.
StoredAccess == {db.rows[i].token : i \in DOMAIN db.rows}

StoredRefresh == {db.rows[i].refreshToken : i \in DOMAIN db.rows}

HeldBy(col, tok) == {i \in DOMAIN db.rows : db.rows[i][col] = tok}

ActiveHolders(col, tok) == {i \in HeldBy(col, tok) : db.rows[i].status = "active"}

RevokedHolder(col, tok) == \E i \in HeldBy(col, tok) : db.rows[i].status = "revoked"

CallRefreshTokens(p) ==
  \E r \in StoredRefresh \cup spent \cup {BadToken} :
    /\ spc[p] = "idle"
    /\ SCall(p, "r_validate",
             [SIdle EXCEPT !.op = "refresh", !.refresh = r,
                           !.pre = ActiveHolders("refreshToken", r),
                           !.wasSpent = (r \in spent),
                           !.revR = RevokedHolder("refreshToken", r)])

CallAuth(p) ==
  \E a \in StoredAccess \cup {BadToken} :
    \E r \in {db.rows[i].refreshToken : i \in HeldBy("token", a)}
               \cup StoredRefresh \cup {BadToken, NoTok} :
      /\ spc[p] = "idle"
      /\ (a \in StoredAccess /\ r \in StoredRefresh) => HeldBy("token", a) = HeldBy("refreshToken", r)
      /\ SCall(p, "a_validate",
               [SIdle EXCEPT !.op = "auth", !.access = a, !.refresh = r,
                             !.pre = ActiveHolders("token", a),
                             !.revA = RevokedHolder("token", a),
                             !.paired = (/\ HeldBy("token", a) # {}
                                         /\ HeldBy("token", a) = HeldBy("refreshToken", r)),
                             !.elapsed = \E i \in HeldBy("token", a) :
                                            SessionExpired(db.rows[i], now)])

RefreshTokensStep(p) ==
  /\ spc[p] \in RefreshPcs
  /\ SFinish(p, RefreshStep(db, sloc[p], spc[p], p, redis, now, strictExp))
  /\ spent' = IF spc[p] = "r_commit" THEN {sloc[p].refresh} ELSE spent

AuthMiddlewareStep(p) ==
  /\ spc[p] \in AuthPcs
  /\ SFinish(p, AuthStep(db, sloc[p], spc[p], redis, now))
  /\ UNCHANGED spent

\* The login of a user who has no session yet.
Login(p) ==
  /\ \A i \in DOMAIN db.rows : db.rows[i].userId \notin LoginUsers
  /\ CallCreateUserSession(p)

\* logoutUseCase: sessionsRepository.revokeSession(sessionId), one statement, of
\* a session the auth middleware let through
RevokeSession ==
  \E sid \in DOMAIN db.rows :
    /\ db.rows[sid].status = "active"
    /\ ~Locked(db, sid, "nobody")
    /\ db' = [db EXCEPT !.rows = revokeSession(@, sid, now)]
    /\ sloc' = [q \in SProcs |-> [sloc[q] EXCEPT !.alone = FALSE]]
    /\ UNCHANGED <<spc, spent, uuidPool, strictExp, now, kvars>>

TickSec ==
  /\ NowSec(now) < MaxSec
  /\ now' = (NowSec(now) + 1) * MsPerSec
  /\ UNCHANGED <<kvars, svars>>

\* The key store once startup has called ensureActiveKey.
StartupKid == 1

StartupRedis ==
  RunKey(EmptyRedis, [IdleLoc EXCEPT !.op = "ensure", !.kid = StartupKid], "w_pem", 0).s

\* ----------------------------------------- the ceiling on active sessions
\* A user who logged in five times, one login per second, and one earlier
\* session of another user: the sessions createUserSession stored.
SeedIds == 1..MAX_CONCURRENT_SESSIONS

OtherSeedId == MAX_CONCURRENT_SESSIONS + 1

\* the k-th randomUUID() of the login that stored row i
SeedJti(i, k) == k * (OtherSeedId + Cardinality(SProcs)) + i

SeedRow(i, u, t) ==
  [id |-> i, userId |-> u,
   token |-> createAccessToken(StartupRedis, t, u, SeedJti(i, 1)).token,
   refreshToken |-> createRefreshToken(StartupRedis, t, FALSE, u, SeedJti(i, 2)).token,
   status |-> "active", expiresAt |-> t + ACCESS_TOKEN_EXPIRY_MS,
   createdAt |-> t, refreshedAt |-> t]

SeedRows ==
  [i \in SeedIds \cup {OtherSeedId} |->
     IF i = OtherSeedId THEN SeedRow(i, "u2", 0) ELSE SeedRow(i, "u1", i * MsPerSec)]

CeilInit ==
  /\ redis = StartupRedis
  /\ genLog = <<[kid |-> StartupKid, by |-> "ensure"]>>
  /\ kpc = [p \in KProcs |-> "idle"]
  /\ kloc = [p \in KProcs |-> IdleLoc]
  /\ now = (MAX_CONCURRENT_SESSIONS + 1) * MsPerSec
  /\ \E n \in {MAX_CONCURRENT_SESSIONS - 1, MAX_CONCURRENT_SESSIONS} :
       db = [EmptyDb EXCEPT !.rows =
               [i \in (1..n) \cup {OtherSeedId} |-> SeedRows[i]]]
  /\ spc = [p \in SProcs |-> "idle"]
  /\ sloc = [p \in SProcs |-> SIdle]
  /\ spent = {}
  /\ uuidPool = (OtherSeedId + 1)..(OtherSeedId + Cardinality(SProcs))
  /\ strictExp = FALSE

CeilNext ==
  \/ \E p \in SProcs :
       \/ CallCreateUserSession(p)
       \/ CreateUserSessionStep(p)
       \/ SReturn(p)

CeilingSpec == CeilInit /\ [][CeilNext]_vars

\* ------------------------------------------------ the session life cycle
Init ==
  /\ redis = StartupRedis
  /\ genLog = <<[kid |-> StartupKid, by |-> "ensure"]>>
  /\ kpc = [p \in KProcs |-> "idle"]
  /\ kloc = [p \in KProcs |-> IdleLoc]
  /\ now = 0
  /\ db = EmptyDb
  /\ spc = [p \in SProcs |-> "idle"]
  /\ sloc = [p \in SProcs |-> SIdle]
  /\ spent = {}
  /\ uuidPool = 1..MaxUuid
  /\ strictExp \in BOOLEAN

\* One request at a time, step by step; logout and the clock run in between.
Next ==
  \/ \E p \in {Client} :
       \/ Login(p)
       \/ CreateUserSessionStep(p)
       \/ CallRefreshTokens(p)
       \/ RefreshTokensStep(p)
       \/ CallAuth(p)
       \/ AuthMiddlewareStep(p)
       \/ SReturn(p)
  \/ RevokeSession
  \/ TickSec

Spec == Init /\ [][Next]_vars

\* ------------------------------------------------- concurrent refreshes
\* the clock of the race, which is over within RaceSec seconds
RaceTick ==
  /\ NowSec(now) < RaceSec
  /\ TickSec

\* After one login, every caller refreshes at will.
RaceNext ==
  \/ \E p \in {Client} :
       \/ Login(p)
       \/ CreateUserSessionStep(p)
  \/ \E p \in SProcs :
       \/ CallRefreshTokens(p)
       \/ RefreshTokensStep(p)
       \/ SReturn(p)
  \/ RaceTick

RefreshRaceSpec == Init /\ [][RaceNext]_vars

\* ------------------------------------------- signing and verification
\* One caller mints an access token, keys rotate and get revoked one full call
\* at a time, and the caller has the token it holds verified.  The caller's
\* record keeps the held token (newAccess), the key store the last call met
\* (store) and whether no key operation came since the mint (alone).
OtherIssuer == "another-deployment"

TokInit ==
  /\ redis = StartupRedis
  /\ genLog = <<[kid |-> StartupKid, by |-> "ensure"]>>
  /\ kpc = [p \in KProcs |-> "idle"]
  /\ kloc = [p \in KProcs |-> IdleLoc]
  /\ now = 0
  /\ db = EmptyDb
  /\ spc = [p \in SProcs |-> "idle"]
  /\ sloc = [p \in SProcs |-> SIdle]
  /\ spent = {}
  /\ uuidPool = 1..MaxUuid
  /\ strictExp = FALSE

MintAccessToken ==
  \E u \in LoginUsers : \E j \in uuidPool :
    LET r == createAccessToken(redis, now, u, j)
        l == [SIdle EXCEPT !.op = "mint", !.user = u, !.newId = j, !.store = redis] IN
    /\ sloc' = [sloc EXCEPT ![Client] =
                  IF r.ok THEN [l EXCEPT !.newAccess = r.token, !.outcome = "ok"]
                  ELSE Threw(l)]
    /\ UNCHANGED <<db, spc, spent, uuidPool, strictExp, now, kvars>>

\* what reaches validateAccessToken: the held token, the same token issued
\* under another deployment's issuer, or a string that is no token
Presented(tok) == {tok, [tok EXCEPT !.iss = OtherIssuer], BadToken}

ValidateAccessToken ==
  LET h == sloc[Client] IN
  /\ h.newAccess # NoTok
  /\ \E tok \in Presented(h.newAccess) :
       LET v == validateAccessToken(tok, redis, now) IN
       sloc' = [sloc EXCEPT ![Client] =
                  [SIdle EXCEPT !.op = "validate", !.user = h.user, !.newId = h.newId,
                                !.newAccess = h.newAccess, !.access = tok,
                                !.uid = v.userId, !.sid = v.sessionId,
                                !.outcome = IF v.isValid THEN "ok" ELSE "unauthorized",
                                !.alone = /\ h.store = redis
                                          /\ (h.op = "mint" \/ h.alone),
                                !.cnt = Len(genLog),
                                !.store = redis]]
  /\ UNCHANGED <<db, spc, spent, uuidPool, strictExp, now, kvars>>

TokNext ==
  \/ MintAccessToken
  \/ ValidateAccessToken
  \/ SeqEnsureActiveKey
  \/ SeqRotateKeys
  \/ SeqRevokeKey

TokenSpec == TokInit /\ [][TokNext]_vars

\* ------------------------------------------------ what a validation returns
\* The caller has any variant of the token it holds validated: the token
\* itself, one of another issuer, an expired one, one without sub, one without
\* jti, a string that is no JWT; keys rotate and get revoked in between.  The
\* record keeps what validateAccessToken returned (uid, sid, outcome) and the
\* key store it ran against (store).
Variants(tok) ==
  {tok, [tok EXCEPT !.iss = OtherIssuer], [tok EXCEPT !.exp = 0],
   [tok EXCEPT !.sub = ""], [tok EXCEPT !.jti = 0], BadToken}

Validated(h, op, tok, v) ==
  [SIdle EXCEPT !.op = op, !.user = h.user, !.newId = h.newId,
                !.newAccess = h.newAccess, !.access = tok,
                !.uid = v.userId, !.sid = v.sessionId,
                !.outcome = IF v.isValid THEN "ok" ELSE "unauthorized",
                !.store = redis]

ValidateVariant ==
  LET h == sloc[Client] IN
  /\ h.newAccess # NoTok
  /\ \E tok \in Variants(h.newAccess) :
       sloc' = [sloc EXCEPT ![Client] =
                  Validated(h, "validate", tok, validateAccessToken(tok, redis, now))]
  /\ UNCHANGED <<db, spc, spent, uuidPool, strictExp, now, kvars>>

\* The same call while Redis does not answer: getLocalJwkSet rejects inside the
\* try of validateAccessToken, whose catch returns the rejection of any token.
\* The middleware then takes the token for an invalid one: without a refresh
\* header it throws UnauthorizedError, with one it runs validateRefreshToken
\* and refreshTokens inside its own try, whose catch throws UnauthorizedError.
validateAccessTokenCatch == Invalid

ValidateWhileUnavailable ==
  LET h == sloc[Client] IN
  /\ h.newAccess # NoTok
  /\ \E tok \in Variants(h.newAccess) :
       sloc' = [sloc EXCEPT ![Client] =
                  Validated(h, "unavailable", tok, validateAccessTokenCatch)]
  /\ UNCHANGED <<db, spc, spent, uuidPool, strictExp, now, kvars>>

RotateWhileValidating ==
  /\ Len(genLog) < MaxRotated
  /\ SeqRotateKeys

ValidationNext ==
  \/ MintAccessToken
  \/ ValidateVariant
  \/ ValidateWhileUnavailable
  \/ RotateWhileValidating
  \/ SeqRevokeKey

ValidationSpec == TokInit /\ [][ValidationNext]_vars

\* ============================================== the status of a session
\* The repository's status-writing statements over a sessions table as the
\* schema admits it: rows of either user in any status of the enum, stored a
\* second ago.  (No statement of the repository writes 'expired'; the column
\* type allows it.)
sessionStatusEnum == {"active", "revoked", "expired"}

revokeAllUserSessions(rows, u, t) ==
  [i \in DOMAIN rows |->
     IF rows[i].userId = u
     THEN [rows[i] EXCEPT !.status = "revoked", !.refreshedAt = t]
     ELSE rows[i]]

StatusInit ==
  /\ redis = StartupRedis
  /\ genLog = <<[kid |-> StartupKid, by |-> "ensure"]>>
  /\ kpc = [p \in KProcs |-> "idle"]
  /\ kloc = [p \in KProcs |-> IdleLoc]
  /\ now = MsPerSec
  /\ \E owner \in [1..MaxRows -> Users] :
       \E status \in [1..MaxRows -> sessionStatusEnum] :
         db = [EmptyDb EXCEPT !.rows =
                 [i \in 1..MaxRows |->
                    [SeedRow(i, owner[i], 0) EXCEPT !.status = status[i]]]]
  /\ spc = [p \in SProcs |-> "idle"]
  /\ sloc = [p \in SProcs |-> SIdle]
  /\ spent = {}
  /\ uuidPool = {}
  /\ strictExp = FALSE

\* sessionsRepository.revokeSession(sessionId), of any row
RevokeSessionById ==
  \E sid \in DOMAIN db.rows :
    /\ db' = [db EXCEPT !.rows = revokeSession(@, sid, now)]
    /\ UNCHANGED <<spc, sloc, spent, uuidPool, strictExp, now, kvars>>

RevokeAllUserSessions ==
  \E u \in Users :
    /\ db' = [db EXCEPT !.rows = revokeAllUserSessions(@, u, now)]
    /\ UNCHANGED <<spc, sloc, spent, uuidPool, strictExp, now, kvars>>

\* revokeOldestSession: the oldest active row of the user, if there is one
RevokeOldestSession ==
  \E u \in Users : \E sid \in OldestActive(db.rows, u) :
    /\ db' = [db EXCEPT !.rows = revokeSession(@, sid, now)]
    /\ UNCHANGED <<spc, sloc, spent, uuidPool, strictExp, now, kvars>>

StatusNext ==
  \/ RevokeSessionById
  \/ RevokeAllUserSessions
  \/ RevokeOldestSession

StatusSpec == StatusInit /\ [][StatusNext]_vars

\* ===================================================== the auth_keys table
\* authKeysRepository keeps the signing keys in a table whose rows carry an
\* activation flag.  Each statement is one step of the database; a call that
\* runs two statements can be overtaken between them by another caller.
authKeysCreate(keys, kid) ==
  [k \in DOMAIN keys \cup {kid} |-> IF k = kid THEN NoKey ELSE keys[k]]

\* update(authKeys).set({active: false}).where(eq(authKeys.active, true))
setActiveClear(keys) ==
  [k \in DOMAIN keys |-> IF keys[k].active THEN [keys[k] EXCEPT !.active = FALSE]
                                           ELSE keys[k]]

\* update(authKeys).set({active: true, deactivatedAt: null}).where(eq(kid))
setActiveSet(keys, kid) ==
  [k \in DOMAIN keys |-> IF k = kid
                         THEN [keys[k] EXCEPT !.active = TRUE, !.deactivated = FALSE]
                         ELSE keys[k]]

deactivate(keys, kid) ==
  [k \in DOMAIN keys |-> IF k = kid
                         THEN [keys[k] EXCEPT !.active = FALSE, !.deactivated = TRUE]
                         ELSE keys[k]]

revoke(keys, kid) ==
  [k \in DOMAIN keys |-> IF k = kid
                         THEN [keys[k] EXCEPT !.active = FALSE, !.revoked = TRUE]
                         ELSE keys[k]]

getActive(keys) == {k \in DOMAIN keys : keys[k].active}

AStatement(p, keys) ==
  /\ db' = [db EXCEPT !.keys = keys]
  /\ UNCHANGED <<spc, sloc, spent, uuidPool, strictExp, redis, now, genLog>>

\* create, with the default active: false
AuthKeysCreate(p) ==
  /\ kpc[p] = "idle"
  /\ \E kid \in Kids \ DOMAIN db.keys : AStatement(p, authKeysCreate(db.keys, kid))
  /\ UNCHANGED <<kpc, kloc>>

AuthKeysDeactivate(p) ==
  /\ kpc[p] = "idle"
  /\ \E kid \in DOMAIN db.keys : AStatement(p, deactivate(db.keys, kid))
  /\ UNCHANGED <<kpc, kloc>>

AuthKeysRevoke(p) ==
  /\ kpc[p] = "idle"
  /\ \E kid \in DOMAIN db.keys : AStatement(p, revoke(db.keys, kid))
  /\ UNCHANGED <<kpc, kloc>>

CallSetActive(p) ==
  /\ \E kid \in DOMAIN db.keys : KCall(p, "setActive", "sa_clear", kid)

SetActiveStep(p) ==
  \/ /\ kpc[p] = "sa_clear"
     /\ AStatement(p, setActiveClear(db.keys))
     /\ kpc' = [kpc EXCEPT ![p] = "sa_set"]
     /\ UNCHANGED kloc
  \/ /\ kpc[p] = "sa_set"
     /\ AStatement(p, setActiveSet(db.keys, kloc[p].kid))
     /\ kpc' = [kpc EXCEPT ![p] = "done"]
     /\ UNCHANGED kloc

SetActiveReturn(p) ==
  /\ kloc[p].op = "setActive"
  /\ KReturn(p)

AInit ==
  /\ redis = EmptyRedis
  /\ now = 0
  /\ kpc = [p \in KProcs |-> "idle"]
  /\ kloc = [p \in KProcs |-> IdleLoc]
  /\ genLog = <<>>
  /\ db = EmptyDb
  /\ spc = [p \in SProcs |-> "idle"]
  /\ sloc = [p \in SProcs |-> SIdle]
  /\ spent = {}
  /\ uuidPool = {}
  /\ strictExp = FALSE

ANext ==
  \E p \in KProcs :
    \/ AuthKeysCreate(p)
    \/ CallSetActive(p)
    \/ SetActiveStep(p)
    \/ SetActiveReturn(p)
    \/ AuthKeysDeactivate(p)
    \/ AuthKeysRevoke(p)

ActiveFlagSpec == AInit /\ [][ANext]_vars

\* ============================================================ login by OTP
\* The users table: the e-mail address of each user; one address belongs to
\* nobody.
UserEmail == [u \in Users |-> IF u = "u1" THEN "u1@mail" ELSE "u2@mail"]
Emails == {UserEmail[u] : u \in LoginUsers} \cup {"nobody@mail"}
Codes == {"111111", "222222"}

OTP_TTL_MS == 24 * 60 * 60 * MsPerSec   \* expires_at: now() + interval '24 hours'
NullDate == 0 - 1                       \* used_at IS NULL
OtpId == 1                              \* the id of the user's row of otps

\* usersRepository.findByEmail(email): the users of that address
findByEmail(email) == {u \in Users : UserEmail[u] = email}

\* otpsRepository.findUnusedByUserId(userId); user_id is unique, so a user has
\* at most one row
findUnusedByUserId(otps, userId) ==
  {u \in DOMAIN otps : u = userId /\ otps[u].usedAt = NullDate}

\* otpsRepository.markAsUsed(id): UPDATE otps SET used_at = now WHERE id = ?
markAsUsed(otps, id, t) ==
  [u \in DOMAIN otps |->
     IF otps[u].id = id THEN [otps[u] EXCEPT !.usedAt = t] ELSE otps[u]]

\* otpsRepository.delete(id)
deleteOtp(otps, id) ==
  [u \in {v \in DOMAIN otps : otps[v].id # id} |-> otps[u]]

\* validateOTP(email, otp) and the two statements of
\* authenticateUserWithOtpUseCase that follow it, one awaited call at a time
OtpStep(d, l, pc, t) ==
  CASE pc = "o_user" ->       \* usersRepository.findByEmail(email)
         LET found == findByEmail(l.email) IN
         IF found = {} THEN Res(d, Unauthorized(l, "Invalid credentials"), "failed")
         ELSE Res(d, [l EXCEPT !.user = CHOOSE u \in found : TRUE], "o_find")
    [] pc = "o_find" ->       \* findUnusedByUserId and the validationErrors
         LET found == findUnusedByUserId(d.otps, l.user) IN
         IF found = {}
         THEN Res(d, [l EXCEPT !.outcome = "notfound", !.msg = "OTP not found"], "failed")
         ELSE LET q == d.otps[CHOOSE u \in found : TRUE] IN
              IF q.userId # l.user
              THEN Res(d, Unauthorized(l, "Invalid credentials"), "failed")
              ELSE IF l.code # q.code
              THEN Res(d, Unauthorized(l, "Invalid OTP"), "failed")
              ELSE IF t > q.expiresAt
              THEN Res(d, [l EXCEPT !.otpId = q.id], "o_delete")
              ELSE IF q.usedAt # NullDate
              THEN Res(d, Unauthorized(l, "OTP already used"), "failed")
              ELSE Res(d, [l EXCEPT !.otpId = q.id], "o_mark")
    [] pc = "o_delete" ->     \* otpsRepository.delete(queriedOTP.id), then the throw
         Res([d EXCEPT !.otps = deleteOtp(@, l.otpId)],
             Unauthorized(l, "OTP expired"), "failed")
    [] pc = "o_mark" ->       \* otpsRepository.markAsUsed(otpId), then
                              \* createUserSession(validatedUserId) begins
         Res([d EXCEPT !.otps = markAsUsed(@, l.otpId, t)],
             [l EXCEPT !.pre = ActiveOf(d.rows, l.user)], "c_count")
    [] OTHER -> Blocked(d, l, pc)

OtpPcs == {"o_user", "o_find", "o_delete", "o_mark"}

\* POST /login with an address and a code
CallAuthenticateWithOtp(p) ==
  \E email \in Emails : \E code \in Codes :
    /\ uuidPool \ DOMAIN db.rows # {}
    /\ SCall(p, "o_user", [SIdle EXCEPT !.op = "otp", !.email = email, !.code = code])

AuthenticateWithOtpStep(p) ==
  /\ spc[p] \in OtpPcs
  /\ SFinish(p, OtpStep(db, sloc[p], spc[p], now))
  /\ UNCHANGED spent

\* The user asked for a code before: the row of otps holds it, unused, and it
\* has expired or not.
OtpInit ==
  /\ redis = StartupRedis
  /\ genLog = <<[kid |-> StartupKid, by |-> "ensure"]>>
  /\ kpc = [p \in KProcs |-> "idle"]
  /\ kloc = [p \in KProcs |-> IdleLoc]
  /\ now = MsPerSec
  /\ \E code \in Codes : \E expiresAt \in {0, OTP_TTL_MS} :
       db = [rows |-> EmptyDb.rows, tx |-> EmptyDb.tx, keys |-> EmptyDb.keys,
             otps |-> [u \in LoginUsers |->
                         [id |-> OtpId, userId |-> u, code |-> code,
                          expiresAt |-> expiresAt, createdAt |-> 0,
                          usedAt |-> NullDate]]]
  /\ spc = [p \in SProcs |-> "idle"]
  /\ sloc = [p \in SProcs |-> SIdle]
  /\ spent = {}
  /\ uuidPool = 1..MaxUuid
  /\ strictExp = FALSE

OtpNext ==
  \E p \in SProcs :
    \/ CallAuthenticateWithOtp(p)
    \/ AuthenticateWithOtpStep(p)
    \/ CreateUserSessionStep(p)
    \/ SReturn(p)

OtpSpec == OtpInit /\ [][OtpNext]_vars

\* ================================================================ claims

\* the key pairs operation op generated
GeneratedBy(op) == {i \in 1..Len(genLog) : genLog[i].by = op}

\* C1: when several callers run ensureActiveKey while no active key pointer
\* exists, exactly one key pair is generated in total and every caller
\* returns the same kid.
C1_SingleGeneration ==
  \A p \in KProcs : \A q \in KProcs \ {p} :
    ( /\ kpc[p] = "done" /\ kloc[p].op = "ensure" /\ kloc[p].empty
      /\ kpc[q] = "done" /\ kloc[q].op = "ensure" /\ kloc[q].empty )
    => (kloc[p].kid = kloc[q].kid /\ Cardinality(GeneratedBy("ensure")) = 1)

\* The M most recently created kids, most recent first.
LastCreated(m) ==
  [i \in 1..Min(m, Len(genLog)) |-> genLog[Len(genLog) + 1 - i].kid]

Rotations == Cardinality(GeneratedBy("rotate"))

\* C10: after R sequential rotateKeys calls with retention maximum M, R > M
\* and no revocation, getJWKS returns exactly the kids of the M most recently
\* created keys, most recent first.
C10_RetentionWindow ==
  (redis.revoked = {} /\ Len(genLog) > JWKS_MAX_KEYS)
    => getJWKS(redis) = LastCreated(JWKS_MAX_KEYS)

C10_Witness ==
  /\ redis.revoked = {}
  /\ Rotations > JWKS_MAX_KEYS
  /\ kloc[Caller].op = "jwks"
  /\ kloc[Caller].keys = LastCreated(JWKS_MAX_KEYS)
  /\ Len(kloc[Caller].keys) = JWKS_MAX_KEYS

Finished(p) == spc[p] \in {"done", "failed"}

\* the presented token carries the id of the session that stores it
JtiIsId(l, tok) == l.pre # {} /\ \A i \in l.pre : tok.jti = i

\* C2: two concurrent refreshTokens calls that present the same refresh token
\* of the same active session: exactly one returns a new pair, the other fails
\* with an Unauthorized error.  (Stated for a token that names its session and
\* has not expired, so that a call running alone would succeed.)
C2_ExactlyOneRefresh ==
  \A p \in SProcs : \A q \in SProcs \ {p} :
    ( /\ Finished(p) /\ Finished(q)
      /\ sloc[p].op = "refresh" /\ sloc[q].op = "refresh"
      /\ sloc[p].refresh = sloc[q].refresh
      /\ q \in sloc[p].raced
      /\ JtiIsId(sloc[p], sloc[p].refresh) /\ JtiIsId(sloc[q], sloc[q].refresh)
      /\ sloc[p].refresh.exp > NowSec(now) )
    => \/ sloc[p].outcome = "ok" /\ sloc[q].outcome = "unauthorized"
       \/ sloc[q].outcome = "ok" /\ sloc[p].outcome = "unauthorized"

\* C3: every stored session's id is the jti claim of its stored access token
\* and of its stored refresh token.
C3_IdIsJti ==
  \A i \in DOMAIN db.rows :
    db.rows[i].token.jti = i /\ db.rows[i].refreshToken.jti = i

\* C4: the access token of an active session, presented to the auth middleware
\* before the session's expiry with no revocation in between, authenticates
\* as the session's user with tokensRefreshed false.
C4_AccessAuthenticates ==
  \A p \in SProcs :
    ( /\ Finished(p) /\ sloc[p].op = "auth" /\ sloc[p].alone
      /\ sloc[p].pre # {}
      /\ \A i \in sloc[p].pre : IsActive(db.rows[i]) /\ ~SessionExpired(db.rows[i], now) )
    => ( /\ sloc[p].outcome = "ok" /\ ~sloc[p].refreshed
         /\ \A i \in sloc[p].pre : sloc[p].uid = db.rows[i].userId )

\* C5: once the access-token TTL has elapsed, the auth middleware given the
\* session's access and refresh tokens fails access verification, falls back
\* to refreshTokens and authenticates with a newly minted pair and
\* tokensRefreshed true.  (Stated for tokens that name their session, with the
\* refresh token unexpired.)
C5_FallsBackToRefresh ==
  \A p \in SProcs :
    ( /\ Finished(p) /\ sloc[p].op = "auth" /\ sloc[p].alone
      /\ sloc[p].paired /\ sloc[p].elapsed
      /\ JtiIsId(sloc[p], sloc[p].access) /\ JtiIsId(sloc[p], sloc[p].refresh)
      /\ sloc[p].refresh.exp > NowSec(now) )
    => ( /\ sloc[p].outcome = "ok" /\ sloc[p].refreshed
         /\ sloc[p].newAccess \notin {NoTok, sloc[p].access}
         /\ sloc[p].newRefresh \notin {NoTok, sloc[p].refresh} )

\* C6: a refresh token that a successful refreshTokens call has consumed fails
\* in every later refreshTokens call, the same clock second included.
C6_SpentRefreshFails ==
  \A p \in SProcs :
    (Finished(p) /\ sloc[p].op = "refresh" /\ sloc[p].wasSpent)
    => sloc[p].outcome # "ok"

\* C7: after a session is revoked, an auth validation that presents its access
\* token fails and a refreshTokens call that presents its refresh token fails.
C7_RevokedStaysOut ==
  \A p \in SProcs :
    Finished(p) =>
      /\ (sloc[p].op = "auth" /\ sloc[p].revA) => sloc[p].outcome = "unauthorized"
      /\ (sloc[p].op = "refresh" /\ sloc[p].revR) => sloc[p].outcome = "unauthorized"

C7_Witness ==
  \E p \in SProcs :
    /\ Finished(p)
    /\ sloc[p].op = "auth" /\ sloc[p].revA
    /\ sloc[p].access.exp > NowSec(now)
    /\ sloc[p].msg = "Session is not active"

\* a user's active session that no other active session precedes
Earliest(rows, ids) == {o \in ids : \A j \in ids : rows[o].createdAt <= rows[j].createdAt}

\* C8: createUserSession, run alone to completion for a user with exactly 5
\* active sessions, leaves exactly 5 active: the one created earliest is
\* revoked, the new one is active.
C8_SixthEvictsOldest ==
  \A p \in SProcs :
    ( /\ spc[p] = "done" /\ sloc[p].op = "create" /\ sloc[p].outcome = "ok"
      /\ sloc[p].alone
      /\ Cardinality(sloc[p].pre) = MAX_CONCURRENT_SESSIONS )
    => LET act == ActiveOf(db.rows, sloc[p].user) IN
       /\ Cardinality(act) = MAX_CONCURRENT_SESSIONS
       /\ sloc[p].newId \in act
       /\ \E o \in Earliest(db.rows, sloc[p].pre) :
            /\ db.rows[o].status = "revoked"
            /\ act = (sloc[p].pre \ {o}) \cup {sloc[p].newId}

C8_Witness ==
  \E p \in SProcs :
    /\ spc[p] = "done" /\ sloc[p].op = "create" /\ sloc[p].outcome = "ok"
    /\ sloc[p].alone
    /\ Cardinality(sloc[p].pre) = MAX_CONCURRENT_SESSIONS
    /\ db.rows[sloc[p].sid].status = "revoked"

\* C9: once all concurrent createUserSession calls of a user have completed,
\* the user has at most 5 active sessions.
C9_CeilingHolds ==
  (\A p \in SProcs : spc[p] \in SRestPcs)
    => \A u \in LoginUsers : countActiveSessions(db.rows, u) <= MAX_CONCURRENT_SESSIONS

\* C11: once revokeKey(kid) has completed, a getJWKS call that starts
\* afterwards returns no key with that kid, whatever rotations or
\* ensureActiveKey calls came in between.
C11_RevokedNeverPublished ==
  \A k \in redis.revoked : k \notin SeqToSet(getJWKS(redis))

C11_Witness ==
  /\ kloc[Caller].op = "jwks"
  /\ kloc[Caller].keys = getJWKS(redis)
  /\ \E k \in redis.revoked :
       /\ k \in SeqToSet(ZRevRange(redis.recent, 0, getKeepCount - 1))
       /\ k \in redis.jwk
       /\ k # redis.active
       /\ k \notin SeqToSet(kloc[Caller].keys)

\* C12: validateAccessToken accepts only a token whose kid is in the retention
\* index and not in the revocation set when the verification set is read, and
\* whose issuer is the configured one; a token signed with a key revoked
\* before the call is rejected.
C12_AcceptedTokenIsPublished ==
  (sloc[Client].op = "validate" /\ sloc[Client].outcome = "ok")
    => /\ sloc[Client].access.kid \in DOMAIN sloc[Client].store.recent
       /\ sloc[Client].access.kid \notin sloc[Client].store.revoked
       /\ sloc[Client].access.iss = ISSUER

C12_Witness ==
  /\ sloc[Client].op = "validate"
  /\ sloc[Client].access = sloc[Client].newAccess
  /\ sloc[Client].access.kid \in sloc[Client].store.revoked
  /\ sloc[Client].access.kid \in DOMAIN sloc[Client].store.recent
  /\ sloc[Client].access.kid \in sloc[Client].store.jwk
  /\ sloc[Client].outcome = "unauthorized"

\* C13: after any sequence of completed ensureActiveKey, rotateKeys and
\* revokeKey calls that created at least one key, getActivePrivateKeyAndKid
\* yields a kid whose private key material is stored, so signing succeeds.
C13_ActiveKeyUsable ==
  (Len(genLog) > 0 /\ \A p \in KProcs : kpc[p] = "idle")
    => getActivePrivateKeyAndKid(redis).ok

\* C14: a token minted by createAccessToken(userId, sessionId) and handed to
\* validateAccessToken with no key operation in between is accepted and yields
\* the same userId and sessionId.
C14_MintThenValidate ==
  ( /\ sloc[Client].op = "validate"
    /\ sloc[Client].access = sloc[Client].newAccess
    /\ sloc[Client].alone )
  => ( /\ sloc[Client].outcome = "ok"
       /\ sloc[Client].uid = sloc[Client].user
       /\ sloc[Client].sid = sloc[Client].newId )

C14_Witness ==
  /\ sloc[Client].op = "validate"
  /\ sloc[Client].access = sloc[Client].newAccess
  /\ sloc[Client].alone
  /\ sloc[Client].outcome = "ok"
  /\ Len(genLog) > 1

\* C15: a token signed with key k keeps verifying after rotateKeys for as long
\* as k is among the M most recently created keys and is not revoked: a
\* rotation alone does not invalidate the previously active key.
C15_RotationKeepsRetainedKeys ==
  ( /\ sloc[Client].op = "validate"
    /\ sloc[Client].access = sloc[Client].newAccess
    /\ sloc[Client].cnt = Len(genLog)
    /\ sloc[Client].access.kid \in SeqToSet(LastCreated(JWKS_MAX_KEYS))
    /\ sloc[Client].access.kid \notin sloc[Client].store.revoked )
  => sloc[Client].outcome = "ok"

C15_Witness ==
  /\ sloc[Client].op = "validate"
  /\ sloc[Client].access = sloc[Client].newAccess
  /\ sloc[Client].cnt = Len(genLog)
  /\ sloc[Client].access.kid \in SeqToSet(LastCreated(JWKS_MAX_KEYS))
  /\ sloc[Client].access.kid # sloc[Client].store.active
  /\ Rotations > 0
  /\ sloc[Client].outcome = "ok"

\* C16: an access token minted at time t expires at t plus the access-token
\* TTL in the unit verification compares against: a session's access token
\* is rejected by validateAccessToken at any time later than its issue time
\* plus the TTL.
C16_AccessExpiresAfterTtl ==
  \A i \in DOMAIN db.rows :
    LET tok == db.rows[i].token IN
    (tok # NoTok /\ NowSec(now) > tok.iat + AccessTtlSec)
      => ~validateAccessToken(tok, redis, now).isValid

\* C17: at every state a concurrent reader can observe while a caller trims
\* the retention index, each kid that caller is removing is listed in the
\* index if and only if its material is still stored: it is never listed
\* with its JWK deleted, and never stored after it has left the index.
C17_IndexMatchesMaterial ==
  \A p \in KProcs :
    kpc[p] \in {"w_delpem", "w_deljwk", "w_zrem"} =>
      \A i \in 1..Len(kloc[p].toRemove) :
        LET rk == kloc[p].toRemove[i] IN
        /\ rk \in DOMAIN redis.recent => rk \in redis.jwk
        /\ rk \in redis.jwk \cup redis.pem => rk \in DOMAIN redis.recent

\* C18: at most one signing key is marked active at any time, also while
\* authKeysRepository.setActive calls for different kids interleave.
C18_AtMostOneActive == Cardinality(getActive(db.keys)) <= 1

PreconditionFails(p) ==
  \/ /\ spc[p] = "r_validate"
     /\ ~validateRefreshToken(sloc[p].refresh, redis, now).isValid
  \/ /\ spc[p] = "r_find"
     /\ \/ HeldBy("refreshToken", sloc[p].refresh) = {}
        \/ \E i \in HeldBy("refreshToken", sloc[p].refresh) :
             \/ db.rows[i].userId # sloc[p].uid
             \/ db.rows[i].id # sloc[p].sid
             \/ db.rows[i].status # "active"

C20_FailedPreconditionWritesNothing ==
  [][\A p \in SProcs :
       /\ (spc[p] \in {"r_validate", "r_find"} /\ spc'[p] # spc[p]) => db' = db
       /\ (PreconditionFails(p) /\ spc'[p] # spc[p])
            => /\ spc'[p] = "failed"
               /\ sloc'[p].outcome = "unauthorized"]_vars

C20_Witness ==
  \E p \in SProcs :
    /\ spc[p] = "failed"
    /\ sloc[p].op = "refresh"
    /\ sloc[p].msg = "Session is not active"
    /\ \E i \in HeldBy("refreshToken", sloc[p].refresh) : db.rows[i].status = "revoked"

\* C21: a successful refreshTokens call stores the newly minted access and
\* refresh token, advances expiresAt and refreshedAt, and returns a session
\* record that carries those updated values.
C21_ReturnsUpdatedSession ==
  \A p \in SProcs :
    (spc[p] = "done" /\ sloc[p].op = "refresh" /\ sloc[p].outcome = "ok")
      => /\ sloc[p].snap.token = sloc[p].newAccess
         /\ sloc[p].snap.refreshToken = sloc[p].newRefresh
         /\ sloc[p].snap.expiresAt = sloc[p].at + ACCESS_TOKEN_EXPIRY_MS
         /\ sloc[p].snap.refreshedAt = sloc[p].at

\* C22: in every committed state, under any interleaving of refreshTokens
\* calls, the access token and the refresh token a session stores were minted
\* by the same call.  Every step that stores a row or changes a stored token
\* is the final step of one createUserSession or refreshTokens call and leaves
\* the row with exactly the pair that call minted.
C22_PairFromOneCall ==
  [][\A i \in DOMAIN db'.rows :
       ( \/ i \notin DOMAIN db.rows
         \/ db'.rows[i].token # db.rows[i].token
         \/ db'.rows[i].refreshToken # db.rows[i].refreshToken )
       => \E p \in SProcs :
            /\ spc[p] \in {"c_insert", "r_commit"}
            /\ spc'[p] = "done"
            /\ db'.rows[i].token = sloc[p].newAccess
            /\ db'.rows[i].refreshToken = sloc[p].newRefresh]_vars

C22_Witness ==
  \E p \in SProcs :
    /\ spc[p] = "done" /\ sloc[p].op = "refresh" /\ sloc[p].outcome = "ok"
    /\ sloc[p].raced # {}
    /\ sloc[p].newAccess # sloc[p].snap.token
    /\ db.rows[sloc[p].snap.id].token = sloc[p].newAccess
    /\ db.rows[sloc[p].snap.id].refreshToken = sloc[p].newRefresh

\* C23: the auth middleware never authenticates a request whose access token
\* fails verification when no refresh token comes with it or the refresh
\* attempt fails: the request ends in an Unauthorized failure.  Such a request
\* is authenticated only by the commit of its refresh.
C23_FailsClosed ==
  [][\A p \in SProcs :
       /\ ( /\ spc[p] = "a_validate" /\ spc'[p] # spc[p]
            /\ ~validateAccessToken(sloc[p].access, redis, now).isValid )
          => /\ spc'[p] # "done"
             /\ sloc[p].refresh = NoTok =>
                  spc'[p] = "failed" /\ sloc'[p].outcome = "unauthorized"
             /\ sloc[p].refresh # NoTok => sloc'[p].via = "auth"
       /\ (sloc[p].via = "auth" /\ spc[p] # "failed" /\ spc'[p] = "failed")
          => sloc'[p].outcome = "unauthorized"
       /\ (sloc[p].via = "auth" /\ spc[p] # "done" /\ spc'[p] = "done")
          => /\ spc[p] = "r_commit"
             /\ db'.rows[sloc[p].snap.id].refreshToken = sloc[p].newRefresh]_vars

C23_Witness ==
  \E p \in SProcs :
    /\ spc[p] = "failed" /\ sloc[p].op = "auth" /\ sloc[p].via = "auth"
    /\ ~validateAccessToken(sloc[p].access, redis, now).isValid
    /\ sloc[p].refresh \in StoredRefresh
    /\ sloc[p].outcome = "unauthorized"

\* C24: when the auth middleware authenticates a request through a valid
\* access token it changes no session field and mints no token: a request
\* whose access token verifies goes on to the session lookup, and neither
\* step writes to the sessions table or produces a token.
C24_AccessPathWritesNothing ==
  [][\A p \in SProcs :
       /\ ( /\ spc[p] = "a_validate" /\ spc'[p] # spc[p]
            /\ jwtVerify(sloc[p].access, redis, now)
            /\ sloc[p].access.sub # "" /\ sloc[p].access.jti # 0 )
          => spc'[p] = "a_find" /\ db' = db
       /\ (spc[p] = "a_find" /\ spc'[p] # spc[p])
          => /\ db' = db
             /\ sloc'[p].newAccess = NoTok /\ sloc'[p].newRefresh = NoTok
             /\ spc'[p] \in {"done", "failed"}
             /\ spc'[p] = "done" =>
                  /\ ~sloc'[p].refreshed
                  /\ sloc'[p].snap = db'.rows[sloc'[p].snap.id]]_vars

C24_Witness ==
  \E p \in SProcs :
    /\ spc[p] = "done" /\ sloc[p].op = "auth" /\ sloc[p].via = "direct"
    /\ sloc[p].outcome = "ok"
    /\ sloc[p].refresh \in StoredRefresh
    /\ sloc[p].snap.token = sloc[p].access

\* C25: on every verification failure (unknown or revoked kid, expired, issuer
\* mismatch, malformed token, missing sub or jti) validateAccessToken returns
\* isValid false with userId and sessionId both null; a non-null userId or
\* sessionId comes only together with isValid true.
C25_NoPartialTrust ==
  LET h == sloc[Client] IN
  h.op = "validate" =>
    /\ ( \/ h.access.kid \notin SeqToSet(getJWKS(h.store))
         \/ h.access.iss # ISSUER
         \/ h.access.exp <= NowSec(now)
         \/ h.access.sub = ""
         \/ h.access.jti = 0 )
       => h.outcome = "unauthorized" /\ h.uid = "" /\ h.sid = 0
    /\ (h.uid # "" \/ h.sid # 0) => h.outcome = "ok"

C25_Witness ==
  LET h == sloc[Client] IN
  /\ h.op = "validate"
  /\ h.access.kid \in SeqToSet(getJWKS(h.store))
  /\ h.access.iss = ISSUER
  /\ h.access.sub # "" /\ h.access.jti = 0
  /\ h.outcome = "unauthorized" /\ h.uid = "" /\ h.sid = 0

\* C26: when the key store is unavailable during token validation, the caller
\* receives an internal (transient) failure and not an Unauthorized failure.
C26_OutageIsNotUnauthorized ==
  sloc[Client].op = "unavailable" => sloc[Client].outcome = "error"

C28_EnsureIsIdempotent ==
  [][(redis.active # NoKid /\ kloc'[Caller].op = "ensure")
       => /\ genLog' = genLog
          /\ redis' = redis
          /\ kloc'[Caller].kid = redis.active
          /\ kloc[Caller].op = "ensure" => kloc'[Caller].kid = kloc[Caller].kid]_vars

C28_Witness ==
  /\ kloc[Caller].op = "ensure"
  /\ ~kloc[Caller].empty
  /\ kloc[Caller].kid = redis.active
  /\ Rotations > 0

\* C29: after revokeKey(kid) has completed, or after kid has been evicted by
\* retention trimming, kid's private key is absent from the key store, and no
\* later operation restores it or takes kid out of the revocation set.
GoneKids(s) == {k \in GeneratedKids : k \in s.revoked \/ k \notin DOMAIN s.recent}

C29_RevokedOrEvictedStaysGone ==
  [][/\ \A k \in GoneKids(redis) : k \notin redis.pem /\ k \notin redis'.pem
     /\ \A k \in GoneKids(redis') : k \notin redis'.pem
     /\ redis.revoked \subseteq redis'.revoked]_vars

C29_Witness ==
  /\ \E k \in redis.revoked : k \notin redis.pem /\ k \in DOMAIN redis.recent
  /\ \E k \in GeneratedKids : k \notin DOMAIN redis.recent /\ k \notin redis.pem
  /\ kloc[Caller].op = "rotate"

\* C30: each createUserSession call revokes at most one session, and the one
\* it revokes is the caller's user's active session with the earliest creation
\* time, never a session of another user.  Only the revoking step of a call
\* takes a session out of the active ones, and it takes at most that one.
Deactivated == {i \in DOMAIN db.rows : db.rows[i].status = "active"
                                        /\ db'.rows[i].status # "active"}

C30_RevokesOnlyTheOldest ==
  [][\A p \in SProcs :
       (spc[p] \in CreatePcs /\ spc'[p] # spc[p]) =>
         /\ Cardinality(Deactivated) <= 1
         /\ spc[p] # "c_revoke" => Deactivated = {}
         /\ \A i \in Deactivated :
              /\ db.rows[i].userId = sloc[p].user
              /\ \A j \in DOMAIN db.rows :
                   (db.rows[j].userId = sloc[p].user /\ db.rows[j].status = "active")
                     => db.rows[i].createdAt <= db.rows[j].createdAt]_vars

C30_Witness ==
  \E p \in SProcs :
    /\ spc[p] = "c_access" /\ sloc[p].sid # 0
    /\ db.rows[sloc[p].sid].status = "revoked"
    /\ db.rows[OtherSeedId].status = "active"
    /\ Cardinality({i \in DOMAIN db.rows : db.rows[i].status = "revoked"}) = 1

C32_NoKeyNoToken ==
  /\ (redis.active # NoKid /\ redis.active \notin redis.pem) =>
       \A u \in LoginUsers : \A j \in 1..MaxUuid :
         /\ createAccessToken(redis, now, u, j) = [ok |-> FALSE, token |-> NoTok]
         /\ \A strict \in BOOLEAN :
              createRefreshToken(redis, now, strict, u, j) = [ok |-> FALSE, token |-> NoTok]
  /\ ( /\ sloc[Client].op = "mint"
       /\ sloc[Client].store.active \notin sloc[Client].store.pem )
     => sloc[Client].outcome = "error" /\ sloc[Client].newAccess = NoTok

C32_Witness ==
  /\ sloc[Client].op = "mint"
  /\ sloc[Client].store.active \in sloc[Client].store.revoked
  /\ sloc[Client].store.active \notin sloc[Client].store.pem
  /\ sloc[Client].outcome = "error"

\* C33: if rotateKeys or the generating branch of ensureActiveKey is cancelled
\* after any one of its store writes, every token signed afterwards with the
\* active key is accepted by validateAccessToken.
C33_CancelledCreationIsSafe ==
  (\A p \in KProcs : kpc[p] = "idle") =>
    \A u \in LoginUsers : \A j \in 1..MaxUuid :
      LET r == createAccessToken(redis, now, u, j) IN
      r.ok => validateAccessToken(r.token, redis, now).isValid

\* C34: after every completed key creation (no creation under way), the
\* retention index holds at most M kids, and every kid that trimming removed
\* from the index has neither private nor public material left in the store.
C34_TrimmedToMaximum ==
  (\A p \in KProcs : kpc[p] \in RestPcs) =>
    /\ ZCard(redis.recent) <= JWKS_MAX_KEYS
    /\ \A k \in GeneratedKids \ DOMAIN redis.recent :
         k \notin redis.pem /\ k \notin redis.jwk

C34_Witness ==
  /\ \A p \in KProcs : kpc[p] \in RestPcs
  /\ Len(genLog) > JWKS_MAX_KEYS
  /\ ZCard(redis.recent) = JWKS_MAX_KEYS
  /\ \E k \in GeneratedKids \ DOMAIN redis.recent :
       k \notin redis.pem /\ k \notin redis.jwk

\* C35: revokeSession applied to an already revoked session leaves the session
\* store unchanged: revoking twice yields the same state as revoking once.
C35_RevokeIsIdempotent ==
  \A i \in DOMAIN db.rows :
    db.rows[i].status = "revoked" => revokeSession(db.rows, i, now) = db.rows

\* C36: under any interleaving of concurrent key creations, trimming never
\* deletes a key that is among the M most recently created: once all calls
\* have completed, the retention index holds min(M, keys ever created) kids.
C36_TrimKeepsTheNewest ==
  (\A p \in KProcs : kpc[p] \in RestPcs) =>
    ZCard(redis.recent) = Min(JWKS_MAX_KEYS, Len(genLog))

\* C37: under any interleaving of concurrent key creations and no revocation,
\* once all calls have completed the active key pointer names a kid that is in
\* the retention index and whose private and public material are stored.
C37_ActiveKeySurvivesTrimming ==
  ((\A p \in KProcs : kpc[p] \in RestPcs) /\ redis.active # NoKid) =>
    /\ redis.active \in DOMAIN redis.recent
    /\ redis.active \in redis.pem
    /\ redis.active \in redis.jwk

\* C38: when revokeSession(s) and refreshTokens for s's refresh token
\* interleave, refreshTokens returns a token pair only if s is still active
\* when its updates commit: no commit reports success for a session whose
\* status is revoked at that moment.
C38_NoRefreshOfRevoked ==
  [][\A p \in SProcs :
       (spc[p] = "r_commit" /\ spc'[p] = "done" /\ sloc'[p].outcome = "ok")
         => db'.rows[sloc[p].snap.id].status = "active"]_vars

\* C39: one OTP code yields at most one session: of the
\* authenticateUserWithOtpUseCase calls with the same email and code that
\* validated the same row of otps, at most one returns tokens.
C39_OneSessionPerCode ==
  \A p \in SProcs : \A q \in SProcs \ {p} :
    ~ /\ spc[p] = "done" /\ spc[q] = "done"
      /\ sloc[p].op = "otp" /\ sloc[q].op = "otp"
      /\ sloc[p].outcome = "ok" /\ sloc[q].outcome = "ok"
      /\ sloc[p].email = sloc[q].email /\ sloc[p].code = sloc[q].code
      /\ sloc[p].otpId = sloc[q].otpId
      /\ sloc[p].newAccess # NoTok /\ sloc[q].newAccess # NoTok

====
